---------------------------- MODULE Spec2Model ----------------------------
(* A model of the DFA engine of AutomataFinalProject:                       *)
(*   src/dfa_simulator.py  - class DFA: __init__, process_string,           *)
(*                           save_to_file, load_from_file                   *)
(*   src/url_validator.py  - class UrlDFA: __init__, validate_url           *)
(*                                                                          *)
(* A Python string whose characters matter (a state label or a symbol of    *)
(* the generic engine, which save_to_file joins with "," and load_from_file *)
(* splits on ",") is a tuple of one-character strings: "q0" is <<"q","0">>. *)
(* The labels and characters of the URL automaton are never taken apart and *)
(* are TLA+ strings. A dict is a function, its keys the DOMAIN; a set is a  *)
(* set; a list is a sequence; the tuple (accepted, trace) is <<b, seq>>.    *)
EXTENDS Integers, Sequences, FiniteSets, TLC

VARIABLES
    dfa,             \* self: the automaton object (its five attributes)
    file,            \* the storage behind one filename: <<>> or <<document>>
    pc,              \* "idle", "loop" (in the for loop, before symbol pos+1)
                     \* or the line the call left by: "raise37", "return40", ...
    input,           \* process_string's input_string / validate_url's url
    pos,             \* number of symbols the for loop has completed
    current_state,   \* local current_state
    state_sequence,  \* local state_sequence
    result,          \* <<>> or the returned tuple <<accepted, state_sequence>>
    io,              \* outcome of the last save_to_file / load_from_file
    fresh,           \* history: the automaton as its constructor left it
    saved,           \* history: <<>> or <<the automaton save_to_file wrote>>
    aborted,         \* history: an earlier run on this automaton raised
    cls,             \* the class of the object self: "DFA" or "UrlDFA"
    memo,            \* history: <<>> or <<input, exit, result>> of an earlier call
    main,            \* where the harness stands: "menu", "create", "test146",
                     \* "save159", "test172", "exited", "crashed" (main of
                     \* dfa_simulator.py), "test194" (main of url_validator.py),
                     \* "serving" (app.py)
    locals,          \* the locals of create_dfa_interactive, <<>> outside it
    components,      \* <<>> or <<what analyze_url_components returned>>, that
                     \* being <<>> for None and <<dict>> for a dictionary
    store,           \* the web layer's directory: filename -> file content
    requests,        \* the web layer's callers: caller -> the request in hand
    replaced,        \* history: the (state, symbol) whose target
                     \* create_dfa_interactive replaced by "trap"
    calls            \* the frames of calls made by concurrent callers:
                     \* caller -> [pc, input, pos, current_state,
                     \*            state_sequence, result]; <<>> when unused

vars == <<dfa, file, pc, input, pos, current_state, state_sequence, result,
          io, fresh, saved, aborted, cls, memo, main, locals, calls,
          components, store, requests, replaced>>

runvars == <<input, pos, current_state, state_sequence, result>>

webvars == <<components, store, requests>>

-----------------------------------------------------------------------------
(* Bounds and input universes of the generic engine.                        *)

MaxLen == 3

P == <<"p">>
Q == <<"q">>
A == <<"a">>
Comma == <<",">>

Labels == {P, Q}
Symbols == {A, Comma}
StateSets == {{P}, {P, Q}}
Alphabets == {{A}, {A, Comma}}

Range(s) == {s[i] : i \in DOMAIN s}

BoundedSeq(S, n) == UNION {[1..k -> S] : k \in 0..n}

PartialFns(K, V) == UNION {[D -> V] : D \in SUBSET K}

Inputs == BoundedSeq(Symbols, MaxLen)

-----------------------------------------------------------------------------
(* class DFA                                                                *)

\* DFA.__init__: stores its five arguments, unchecked.
DFA(states, alphabet, transition_function, start_state, accept_states) ==
    [states |-> states,
     alphabet |-> alphabet,
     transition_function |-> transition_function,
     start_state |-> start_state,
     accept_states |-> accept_states]

\* The automata the constructor is called with.
Automata ==
    {DFA(S, Al, T, q0, F) :
        S \in StateSets, Al \in Alphabets,
        T \in PartialFns(Labels \X Symbols, Labels),
        q0 \in Labels, F \in SUBSET Labels}

\* The symbol the for loop of process_string / validate_url looks at next.
symbol == input[pos + 1]

\* process_string, lines 32-33: the locals before the loop.
Call_Mut_EmptyTrace ==
    /\ pc = "idle"
    /\ \E s \in Inputs : input' = s
    /\ pc' = "loop"
    /\ pos' = 0
    /\ current_state' = dfa.start_state
    /\ state_sequence' = <<>>
    /\ result' = <<>>
    /\ UNCHANGED <<webvars, replaced, main, locals, cls, memo, calls, dfa, file, io, fresh, saved, aborted>>

Call ==
    /\ pc = "idle"
    /\ \E s \in Inputs : input' = s
    /\ pc' = "loop"
    /\ pos' = 0
    /\ current_state' = dfa.start_state
    /\ state_sequence' = <<current_state'>>
    /\ result' = <<>>
    /\ UNCHANGED <<webvars, replaced, main, locals, cls, memo, calls, dfa, file, io, fresh, saved, aborted>>

\* process_string, lines 36-37: raise ValueError, no value is returned.
UnknownSymbol ==
    /\ pc = "loop"
    /\ pos < Len(input)
    /\ symbol \notin dfa.alphabet
    /\ pc' = "raise37"
    /\ aborted' = TRUE
    /\ UNCHANGED <<webvars, replaced, main, locals, cls, memo, calls, dfa, file, io, fresh, saved, runvars>>

\* process_string, lines 39-40: return False, state_sequence.
UndefinedTransition_Mut_Break ==
    /\ pc = "loop"
    /\ pos < Len(input)
    /\ symbol \in dfa.alphabet
    /\ <<current_state, symbol>> \notin DOMAIN dfa.transition_function
    /\ pc' = "return40"
    /\ result' = <<current_state \in dfa.accept_states, state_sequence>>
    /\ UNCHANGED <<webvars, replaced, main, locals, cls, memo, calls, dfa, file, io, fresh, saved, aborted,
                   input, pos, current_state, state_sequence>>

UndefinedTransition_Mut_LookupFirst ==
    /\ pc = "loop"
    /\ pos < Len(input)
    /\ <<current_state, symbol>> \notin DOMAIN dfa.transition_function
    /\ pc' = "return40"
    /\ result' = <<FALSE, state_sequence>>
    /\ UNCHANGED <<webvars, replaced, main, locals, cls, memo, calls, dfa, file, io, fresh, saved, aborted,
                   input, pos, current_state, state_sequence>>

UndefinedTransition ==
    /\ pc = "loop"
    /\ pos < Len(input)
    /\ symbol \in dfa.alphabet
    /\ <<current_state, symbol>> \notin DOMAIN dfa.transition_function
    /\ pc' = "return40"
    /\ result' = <<FALSE, state_sequence>>
    /\ UNCHANGED <<webvars, replaced, main, locals, cls, memo, calls, dfa, file, io, fresh, saved, aborted,
                   input, pos, current_state, state_sequence>>

\* process_string, lines 42-43: take the transition and record it.
Advance_Mut_AppendOld ==
    /\ pc = "loop"
    /\ pos < Len(input)
    /\ symbol \in dfa.alphabet
    /\ <<current_state, symbol>> \in DOMAIN dfa.transition_function
    /\ current_state' = dfa.transition_function[<<current_state, symbol>>]
    /\ state_sequence' = Append(state_sequence, current_state)
    /\ pos' = pos + 1
    /\ UNCHANGED <<webvars, replaced, main, locals, cls, memo, calls, dfa, file, io, fresh, saved, aborted, pc, input, result>>

Advance_Mut_StoreOnSelf ==
    /\ pc = "loop"
    /\ pos < Len(input)
    /\ symbol \in dfa.alphabet
    /\ <<current_state, symbol>> \in DOMAIN dfa.transition_function
    /\ current_state' = dfa.transition_function[<<current_state, symbol>>]
    /\ state_sequence' = Append(state_sequence, current_state')
    /\ pos' = pos + 1
    /\ dfa' = [dfa EXCEPT !.start_state = current_state']
    /\ UNCHANGED <<webvars, replaced, main, locals, cls, memo, calls, file, io, fresh, saved, aborted, pc, input, result>>

Advance ==
    /\ pc = "loop"
    /\ pos < Len(input)
    /\ symbol \in dfa.alphabet
    /\ <<current_state, symbol>> \in DOMAIN dfa.transition_function
    /\ current_state' = dfa.transition_function[<<current_state, symbol>>]
    /\ state_sequence' = Append(state_sequence, current_state')
    /\ pos' = pos + 1
    /\ UNCHANGED <<webvars, replaced, main, locals, cls, memo, calls, dfa, file, io, fresh, saved, aborted, pc, input, result>>

\* process_string, line 45: the loop is exhausted (here the state the run
\* ended in is left on self).
LoopEnd_Mut_KeepState ==
    /\ pc = "loop"
    /\ pos = Len(input)
    /\ pc' = "return45"
    /\ result' = <<current_state \in dfa.accept_states, state_sequence>>
    /\ dfa' = [dfa EXCEPT !.start_state = current_state]
    /\ UNCHANGED <<webvars, replaced, main, locals, cls, memo, calls, file, io, fresh, saved,
                   aborted, input, pos, current_state, state_sequence>>

LoopEnd ==
    /\ pc = "loop"
    /\ pos = Len(input)
    /\ pc' = "return45"
    /\ result' = <<current_state \in dfa.accept_states, state_sequence>>
    /\ UNCHANGED <<webvars, replaced, main, locals, cls, memo, calls, dfa, file, io, fresh, saved, aborted,
                   input, pos, current_state, state_sequence>>

\* process_string as a whole, lines 32-45: the exit line and what it gives,
\* for automaton d, the input left to read s, and the two locals.
RECURSIVE for_loop(_, _, _, _)
for_loop(d, s, cur, seq) ==
    IF s = <<>> THEN <<"return45", <<cur \in d.accept_states, seq>>>>
    ELSE IF Head(s) \notin d.alphabet THEN <<"raise37", <<>>>>
    ELSE IF <<cur, Head(s)>> \notin DOMAIN d.transition_function
         THEN <<"return40", <<FALSE, seq>>>>
    ELSE LET nxt == d.transition_function[<<cur, Head(s)>>]
         IN  for_loop(d, Tail(s), nxt, Append(seq, nxt))

process_string(d, s) == for_loop(d, s, d.start_state, <<d.start_state>>)

\* main, lines 146-156: the outcome is printed (the ValueError caught) and
\* the harness asks for the next string; the call's locals are gone.
NextPrompt ==
    /\ pc \notin {"idle", "loop"}
    /\ pc' = "idle"
    /\ input' = <<>>
    /\ pos' = 0
    /\ current_state' = <<>>
    /\ state_sequence' = <<>>
    /\ result' = <<>>
    /\ UNCHANGED <<webvars, replaced, main, locals, cls, memo, calls, dfa, file, io, fresh, saved, aborted>>

-----------------------------------------------------------------------------
(* Persistence: save_to_file and load_from_file.                            *)

\* list(a_set): the elements once each, in the set's iteration order.
list(S) == {s \in [1..Cardinality(S) -> S] : Range(s) = S}

\* f"{state},{symbol}"
key(state, sym) == state \o Comma \o sym

\* str.split(","): the pieces between the commas, one more than the commas.
RECURSIVE split(_)
split(s) ==
    IF \E i \in 1..Len(s) : <<s[i]>> = Comma
    THEN LET i == CHOOSE i \in 1..Len(s) :
                      /\ <<s[i]>> = Comma
                      /\ \A j \in 1..(i - 1) : <<s[j]>> # Comma
         IN  <<SubSeq(s, 1, i - 1)>> \o split(SubSeq(s, i + 1, Len(s)))
    ELSE <<s>>

\* save_to_file, lines 54-55: the dict comprehension over the transitions;
\* of two pairs formatting to one key a dict keeps a single entry.
encoded_transitions(tf) ==
    [k \in {key(p[1], p[2]) : p \in DOMAIN tf} |->
        tf[CHOOSE p \in DOMAIN tf : key(p[1], p[2]) = k]]

\* save_to_file, lines 51-58: the document json.dump writes.
dfa_dict(d, ls, la, lf) ==
    [states |-> ls,
     alphabet |-> la,
     transition_function |-> encoded_transitions(d.transition_function),
     start_state |-> d.start_state,
     accept_states |-> lf]

\* save_to_file: json.dump of the document; json.load gives it back as
\* written (labels are strings, which JSON carries unchanged).
save_to_file ==
    /\ pc = "idle"
    /\ \E ls \in list(dfa.states), la \in list(dfa.alphabet),
          lf \in list(dfa.accept_states) :
            file' = <<dfa_dict(dfa, ls, la, lf)>>
    /\ io' = "saved"
    /\ saved' = <<dfa>>
    /\ UNCHANGED <<webvars, replaced, main, locals, cls, memo, calls, dfa, fresh, aborted, pc, runvars>>

\* load_from_file, lines 75-77: "state, symbol = key.split(',')" unpacks
\* exactly two pieces, anything else is a ValueError.
unpackable(doc) ==
    \A k \in DOMAIN doc.transition_function : Len(split(k)) = 2

decoded_transitions(doc) ==
    [p \in {<<split(k)[1], split(k)[2]>> : k \in DOMAIN doc.transition_function}
        |-> doc.transition_function[
               CHOOSE k \in DOMAIN doc.transition_function :
                   <<split(k)[1], split(k)[2]>> = p]]

\* load_from_file, lines 71-82: the automaton built from a document.
decode(doc) ==
    DFA(Range(doc.states), Range(doc.alphabet), decoded_transitions(doc),
        doc.start_state, Range(doc.accept_states))

\* load_from_file, line 68: open() of a file that is not there.
LoadNotFound ==
    /\ pc = "idle"
    /\ file = <<>>
    /\ io' = "FileNotFoundError"
    /\ UNCHANGED <<webvars, replaced, main, locals, cls, memo, calls, dfa, file, fresh, saved, aborted, pc, runvars>>

\* load_from_file, line 76: a key that does not unpack into two pieces.
LoadValueError ==
    /\ pc = "idle"
    /\ file # <<>>
    /\ ~unpackable(file[1])
    /\ io' = "ValueError"
    /\ UNCHANGED <<webvars, replaced, main, locals, cls, memo, calls, dfa, file, fresh, saved, aborted, pc, runvars>>

\* load_from_file, line 82: the caller now holds the loaded automaton.
LoadOk ==
    /\ pc = "idle"
    /\ file # <<>>
    /\ unpackable(file[1])
    /\ dfa' = decode(file[1])
    /\ fresh' = dfa'
    /\ io' = "loaded"
    /\ aborted' = FALSE
    /\ UNCHANGED <<webvars, replaced, main, locals, cls, memo, calls, file, saved, pc, runvars>>

-----------------------------------------------------------------------------
(* The generic engine: one automaton, its runs and its file.                *)

Init ==
    /\ dfa \in Automata
    /\ cls = "DFA"
    /\ main = "test146"
    /\ locals = <<>>
    /\ components = <<>>
    /\ store = <<>>
    /\ requests = <<>>
    /\ replaced = {}
    /\ memo = <<>>
    /\ calls = <<>>
    /\ fresh = dfa
    /\ file = <<>>
    /\ saved = <<>>
    /\ io = "none"
    /\ aborted = FALSE
    /\ pc = "idle"
    /\ input = <<>>
    /\ pos = 0
    /\ current_state = <<>>
    /\ state_sequence = <<>>
    /\ result = <<>>

Next ==
    \/ Call
    \/ UnknownSymbol
    \/ UndefinedTransition
    \/ Advance
    \/ LoopEnd
    \/ NextPrompt
    \/ save_to_file
    \/ LoadNotFound
    \/ LoadValueError
    \/ LoadOk

Spec == Init /\ [][Next]_vars

-----------------------------------------------------------------------------
(* class UrlDFA: the URL grammar and validate_url.                          *)

MaxUrlLen == 4

Lower == {"a","b","c","d","e","f","g","h","i","j","k","l","m",
          "n","o","p","q","r","s","t","u","v","w","x","y","z"}
Upper == {"A","B","C","D","E","F","G","H","I","J","K","L","M",
          "N","O","P","Q","R","S","T","U","V","W","X","Y","Z"}
Digits == {"0","1","2","3","4","5","6","7","8","9"}
Alnum == Lower \cup Upper \cup Digits

\* UrlDFA.__init__, lines 4-13.
UrlStates == {"start", "scheme", "scheme_separator", "authority",
              "path", "query", "fragment", "rejected"}

\* UrlDFA.__init__, line 16.
UrlAlphabet ==
    Alnum \cup {"-", ".", "_", "~", ":", "/", "?", "#", "[", "]", "@", "!",
                "$", "&", "'", "(", ")", "*", "+", ",", ";", "=", "%"}

\* The character classes of lines 49, 62, 73 and 82.
AuthorityChars == Alnum \cup {"-", ".", "_"}
PathChars ==
    Alnum \cup {"-", ".", "_", "~", ":", "/", "@", "!", "$", "&", "'",
                "(", ")", "*", "+", ",", ";", "=", "%"}
QueryChars == PathChars \cup {"?"}
FragmentChars == QueryChars \cup {"#"}

\* A dict after the assignments e are made on top of d: a later write wins.
update(d, e) == e @@ d

\* Lines 22-26.
start_transitions ==
    [k \in {"start"} \X UrlAlphabet |->
        IF k[2] = "h" THEN "scheme" ELSE "rejected"]

\* Lines 29-37 with the 's' of "https" left out.
scheme_transitions_Mut_NoS ==
    update(
        (<<"scheme", "t">> :> "scheme") @@ (<<"scheme", "p">> :> "scheme")
        @@ (<<"scheme", ":">> :> "scheme_separator"),
        [k \in {"scheme"} \X (UrlAlphabet \ {"t", "p", ":"}) |-> "rejected"])

\* Lines 29-37.
scheme_transitions ==
    update(
        (<<"scheme", "t">> :> "scheme") @@ (<<"scheme", "p">> :> "scheme")
        @@ (<<"scheme", "s">> :> "scheme")
        @@ (<<"scheme", ":">> :> "scheme_separator"),
        [k \in {"scheme"} \X (UrlAlphabet \ {"t", "p", "s", ":"}) |-> "rejected"])

\* Lines 40-45.
scheme_separator_transitions ==
    update(
        (<<"scheme_separator", "/">> :> "scheme_separator"),
        [k \in {"scheme_separator"} \X (UrlAlphabet \ {"/", ":"}) |-> "authority"])

\* Lines 48-58 with ':' kept in the authority (a port separator).
authority_transitions_Mut_Port ==
    [k \in {"authority"} \X UrlAlphabet |->
        IF k[2] \in AuthorityChars \cup {":"} THEN "authority"
        ELSE IF k[2] = "/" THEN "path"
        ELSE IF k[2] = "?" THEN "query"
        ELSE IF k[2] = "#" THEN "fragment"
        ELSE "rejected"]

\* Lines 48-58 with ':' leading from authority back to scheme_separator.
authority_transitions_Mut_ColonBack ==
    [k \in {"authority"} \X UrlAlphabet |->
        IF k[2] \in AuthorityChars THEN "authority"
        ELSE IF k[2] = ":" THEN "scheme_separator"
        ELSE IF k[2] = "/" THEN "path"
        ELSE IF k[2] = "?" THEN "query"
        ELSE IF k[2] = "#" THEN "fragment"
        ELSE "rejected"]

\* Lines 48-58.
authority_transitions ==
    [k \in {"authority"} \X UrlAlphabet |->
        IF k[2] \in AuthorityChars THEN "authority"
        ELSE IF k[2] = "/" THEN "path"
        ELSE IF k[2] = "?" THEN "query"
        ELSE IF k[2] = "#" THEN "fragment"
        ELSE "rejected"]

\* Lines 61-69.
path_transitions ==
    [k \in {"path"} \X UrlAlphabet |->
        IF k[2] \in PathChars THEN "path"
        ELSE IF k[2] = "?" THEN "query"
        ELSE IF k[2] = "#" THEN "fragment"
        ELSE "rejected"]

\* Lines 72-78.
query_transitions ==
    [k \in {"query"} \X UrlAlphabet |->
        IF k[2] \in QueryChars THEN "query"
        ELSE IF k[2] = "#" THEN "fragment"
        ELSE "rejected"]

\* Lines 81-85.
fragment_transitions ==
    [k \in {"fragment"} \X UrlAlphabet |->
        IF k[2] \in FragmentChars THEN "fragment" ELSE "rejected"]

\* The object with scheme_separator among the accept states.
UrlDFA_Mut_AcceptSeparator ==
    [states |-> UrlStates,
     alphabet |-> UrlAlphabet,
     transition_function |->
        update(update(update(update(update(update(start_transitions,
            scheme_transitions), scheme_separator_transitions),
            authority_transitions), path_transitions), query_transitions),
            fragment_transitions),
     start_state |-> "start",
     accept_states |-> {"scheme_separator", "authority", "path", "query",
                        "fragment"}]

\* UrlDFA.__init__: the object it leaves.
UrlDFA ==
    [states |-> UrlStates,
     alphabet |-> UrlAlphabet,
     transition_function |->
        update(update(update(update(update(update(start_transitions,
            scheme_transitions), scheme_separator_transitions),
            authority_transitions), path_transitions), query_transitions),
            fragment_transitions),
     start_state |-> "start",
     accept_states |-> {"authority", "path", "query", "fragment"}]

\* The characters the checked urls are written in: one or two of each class
\* the table tells apart, and "<", which is not in the alphabet.
UrlChars == {"h", "t", ":", "/", "a", ".", "?", "#", "@", "[", "<"}

\* The urls the scenarios of the specification name.
ScenarioUrls ==
    {<<"h","t","t","p",":">>,
     <<"h","t","t","p","s",":">>,
     <<"h","t","t","p",":","/","/">>,
     <<"f","t","p",":","/","/","x",".","c","o","m">>,
     <<"h","t","t","p","s",":","/","/","e","x","a","m","p","l","e",".","c",
       "o","m","/","p","a","t","h","?","q","=","1","#","f","r","a","g">>}

UrlInputs == BoundedSeq(UrlChars, MaxUrlLen) \cup ScenarioUrls

\* validate_url, lines 104-105.
UrlCall ==
    /\ pc = "idle"
    /\ \E url \in UrlInputs : input' = url
    /\ pc' = "loop"
    /\ pos' = 0
    /\ current_state' = dfa.start_state
    /\ state_sequence' = <<current_state'>>
    /\ result' = <<>>
    /\ UNCHANGED <<webvars, replaced, main, locals, cls, memo, calls, dfa, file, io, fresh, saved, aborted>>

\* Lines 108-109 returning the trace without the closing 'rejected'.
UrlUnknownChar_Mut_NoMarker ==
    /\ pc = "loop"
    /\ pos < Len(input)
    /\ symbol \notin dfa.alphabet
    /\ pc' = "return109"
    /\ result' = <<FALSE, state_sequence>>
    /\ UNCHANGED <<webvars, replaced, main, locals, cls, memo, calls, dfa, file, io, fresh, saved, aborted,
                   input, pos, current_state, state_sequence>>

\* validate_url, lines 108-109.
UrlUnknownChar ==
    /\ pc = "loop"
    /\ pos < Len(input)
    /\ symbol \notin dfa.alphabet
    /\ pc' = "return109"
    /\ result' = <<FALSE, state_sequence \o <<"rejected">>>>
    /\ UNCHANGED <<webvars, replaced, main, locals, cls, memo, calls, dfa, file, io, fresh, saved, aborted,
                   input, pos, current_state, state_sequence>>

\* validate_url, lines 111-112.
UrlUndefined ==
    /\ pc = "loop"
    /\ pos < Len(input)
    /\ symbol \in dfa.alphabet
    /\ <<current_state, symbol>> \notin DOMAIN dfa.transition_function
    /\ pc' = "return112"
    /\ result' = <<FALSE, state_sequence \o <<"rejected">>>>
    /\ UNCHANGED <<webvars, replaced, main, locals, cls, memo, calls, dfa, file, io, fresh, saved, aborted,
                   input, pos, current_state, state_sequence>>

\* validate_url, lines 114-117: the transition leads to a state other than
\* 'rejected' and the loop goes on.
UrlAdvance ==
    /\ pc = "loop"
    /\ pos < Len(input)
    /\ symbol \in dfa.alphabet
    /\ <<current_state, symbol>> \in DOMAIN dfa.transition_function
    /\ current_state' = dfa.transition_function[<<current_state, symbol>>]
    /\ current_state' # "rejected"
    /\ state_sequence' = Append(state_sequence, current_state')
    /\ pos' = pos + 1
    /\ UNCHANGED <<webvars, replaced, main, locals, cls, memo, calls, dfa, file, io, fresh, saved, aborted, pc, input, result>>

\* Lines 114-116 without the early return of lines 117-118.
UrlRejected_Mut_NoReturn ==
    /\ pc = "loop"
    /\ pos < Len(input)
    /\ symbol \in dfa.alphabet
    /\ <<current_state, symbol>> \in DOMAIN dfa.transition_function
    /\ current_state' = dfa.transition_function[<<current_state, symbol>>]
    /\ current_state' = "rejected"
    /\ state_sequence' = Append(state_sequence, current_state')
    /\ pos' = pos + 1
    /\ UNCHANGED <<webvars, replaced, main, locals, cls, memo, calls, dfa, file, io, fresh, saved, aborted,
                   pc, input, result>>

\* validate_url, lines 114-118: the transition leads to 'rejected'.
UrlRejected ==
    /\ pc = "loop"
    /\ pos < Len(input)
    /\ symbol \in dfa.alphabet
    /\ <<current_state, symbol>> \in DOMAIN dfa.transition_function
    /\ current_state' = dfa.transition_function[<<current_state, symbol>>]
    /\ current_state' = "rejected"
    /\ state_sequence' = Append(state_sequence, current_state')
    /\ pos' = pos + 1
    /\ pc' = "return118"
    /\ result' = <<FALSE, state_sequence'>>
    /\ UNCHANGED <<webvars, replaced, main, locals, cls, memo, calls, dfa, file, io, fresh, saved, aborted, input>>

\* Line 120 with the verdict "did not end in 'rejected'".
UrlEnd_Mut_NotRejected ==
    /\ pc = "loop"
    /\ pos = Len(input)
    /\ pc' = "return120"
    /\ result' = <<current_state # "rejected", state_sequence>>
    /\ UNCHANGED <<webvars, replaced, main, locals, cls, memo, calls, dfa, file, io, fresh, saved, aborted,
                   input, pos, current_state, state_sequence>>

\* validate_url, line 120.
UrlEnd ==
    /\ pc = "loop"
    /\ pos = Len(input)
    /\ pc' = "return120"
    /\ result' = <<current_state \in dfa.accept_states, state_sequence>>
    /\ UNCHANGED <<webvars, replaced, main, locals, cls, memo, calls, dfa, file, io, fresh, saved, aborted,
                   input, pos, current_state, state_sequence>>

\* validate_url as a whole, lines 104-120: the exit line and what it gives,
\* for object d, the characters left to read and the two locals.
RECURSIVE url_loop(_, _, _, _)
url_loop(d, s, cur, seq) ==
    IF s = <<>> THEN <<"return120", <<cur \in d.accept_states, seq>>>>
    ELSE IF Head(s) \notin d.alphabet
         THEN <<"return109", <<FALSE, seq \o <<"rejected">>>>>>
    ELSE IF <<cur, Head(s)>> \notin DOMAIN d.transition_function
         THEN <<"return112", <<FALSE, seq \o <<"rejected">>>>>>
    ELSE LET nxt == d.transition_function[<<cur, Head(s)>>]
         IN  IF nxt = "rejected"
             THEN <<"return118", <<FALSE, Append(seq, nxt)>>>>
             ELSE url_loop(d, Tail(s), nxt, Append(seq, nxt))

validate_url(d, url) == url_loop(d, url, d.start_state, <<d.start_state>>)

InitUrl ==
    /\ dfa = UrlDFA
    /\ cls = "UrlDFA"
    /\ main = "test194"
    /\ locals = <<>>
    /\ components = <<>>
    /\ store = <<>>
    /\ requests = <<>>
    /\ replaced = {}
    /\ memo = <<>>
    /\ calls = <<>>
    /\ fresh = dfa
    /\ file = <<>>
    /\ saved = <<>>
    /\ io = "none"
    /\ aborted = FALSE
    /\ pc = "idle"
    /\ input = <<>>
    /\ pos = 0
    /\ current_state = <<>>
    /\ state_sequence = <<>>
    /\ result = <<>>

NextUrl ==
    \/ UrlCall
    \/ UrlUnknownChar
    \/ UrlUndefined
    \/ UrlAdvance
    \/ UrlRejected
    \/ UrlEnd
    \/ NextPrompt

SpecUrl == InitUrl /\ [][NextUrl]_vars

-----------------------------------------------------------------------------
(* Properties of the generic engine (checked under Spec).                   *)

\* The call has ended, by a return or by the raise.
Ended == pc \notin {"idle", "loop"}

\* r is the automaton's path over the first k symbols of the input: it starts
\* in start_state and follows a defined transition at every step.
IsRun(r, k) ==
    /\ Len(r) = k + 1
    /\ r[1] = dfa.start_state
    /\ \A i \in 1..k :
          /\ <<r[i], input[i]>> \in DOMAIN dfa.transition_function
          /\ r[i + 1] = dfa.transition_function[<<r[i], input[i]>>]

Paths(k) == [1..(k + 1) -> Labels]

InAlphabet(k) == \A i \in 1..k : input[i] \in dfa.alphabet

\* start in states, accept within states, transitions over states and alphabet.
Valid(d) ==
    /\ d.start_state \in d.states
    /\ d.accept_states \subseteq d.states
    /\ \A k \in DOMAIN d.transition_function :
          /\ k[1] \in d.states
          /\ k[2] \in d.alphabet
          /\ d.transition_function[k] \in d.states

HasComma(x) == \E i \in 1..Len(x) : <<x[i]>> = Comma

\* C1: when the path over the first i symbols is defined, those symbols and
\* symbol i+1 are in the alphabet and (state reached, symbol i+1) has no
\* transition, the call returns (False, that path) having consumed exactly i
\* symbols, whatever follows in the input and whether or not the state reached
\* is an accept state.
C1_StopsAtFirstUndefined ==
    Ended =>
        \A i \in 0..(Len(input) - 1) : \A r \in Paths(i) :
            ( /\ IsRun(r, i)
              /\ InAlphabet(i + 1)
              /\ <<r[i + 1], input[i + 1]>> \notin DOMAIN dfa.transition_function )
            => /\ result = <<FALSE, r>>
               /\ pos = i
               /\ state_sequence = r

\* C1 witness: an early stop in an accept state, with a later symbol that is
\* not even in the alphabet left unread.
C1_Witness ==
    /\ pc = "return40"
    /\ result = <<FALSE, state_sequence>>
    /\ pos >= 1
    /\ current_state \in dfa.accept_states
    /\ \E j \in (pos + 2)..Len(input) : input[j] \notin dfa.alphabet

\* C2: on an input over the alphabet whose path r is defined to the end, the
\* call returns the trace r (length n+1, from start_state, each step the
\* transition of the one before) and accepted = (r[n+1] in accept_states).
C2_TraceAndVerdict ==
    (Ended /\ InAlphabet(Len(input))) =>
        \A r \in Paths(Len(input)) :
            IsRun(r, Len(input)) =>
                result = <<r[Len(input) + 1] \in dfa.accept_states, r>>

\* C2 witness: a full run of three symbols that changes state and accepts.
C2_Witness ==
    /\ pc = "return45"
    /\ Len(input) = 3
    /\ result[1] = TRUE
    /\ result[2][1] # result[2][4]
    /\ IsRun(result[2], 3)

\* C3: the empty input returns (start_state in accept_states, [start_state]).
C3_EmptyInput ==
    (Ended /\ input = <<>>) =>
        result = <<dfa.start_state \in dfa.accept_states, <<dfa.start_state>>>>

\* C3 witness: the empty input accepted by an automaton whose start state is
\* not one of its states and whose transition table is not empty.
C3_Witness ==
    /\ pc = "return45"
    /\ input = <<>>
    /\ result[1] = TRUE
    /\ dfa.start_state \notin dfa.states
    /\ DOMAIN dfa.transition_function # {}

\* C4: when the path over the first i symbols is defined, those symbols are
\* in the alphabet and symbol i+1 is not, the call ends by the ValueError and
\* returns nothing, also where (state reached, symbol i+1) has no transition.
C4_UnknownSymbolRaises ==
    Ended =>
        \A i \in 0..(Len(input) - 1) : \A r \in Paths(i) :
            (IsRun(r, i) /\ InAlphabet(i) /\ input[i + 1] \notin dfa.alphabet)
            => (pc = "raise37" /\ result = <<>> /\ pos = i)

\* C4 witness: the ValueError on a symbol for which the lookup would have
\* found no transition, after the loop has advanced.
C4_Witness ==
    /\ pc = "raise37"
    /\ pos >= 1
    /\ symbol \notin dfa.alphabet
    /\ <<current_state, symbol>> \notin DOMAIN dfa.transition_function

\* C5: no step of a run changes the automaton, and every call, also one made
\* after earlier runs that returned or raised, ends as process_string ends on
\* the automaton as constructed.
C5_AutomatonUnchanged ==
    /\ dfa = fresh
    /\ Ended => <<pc, result>> = process_string(fresh, input)

\* C5 witness: a run that accepts a non-empty input after an earlier run on
\* the same automaton raised the ValueError.
C5_Witness ==
    /\ aborted
    /\ pc = "return45"
    /\ Len(input) >= 2
    /\ result[1] = TRUE

\* C6 (as claimed): loading the file a structurally valid automaton was saved
\* to succeeds and gives an automaton with the same five components.
C6_RoundTrip ==
    (saved # <<>> /\ Valid(saved[1]) /\ io \in {"loaded", "ValueError"}) =>
        (io = "loaded" /\ dfa = saved[1])

\* C7 (as claimed): when a state label or alphabet symbol contains ",", a file
\* that was written holds, for every transition, a key that splits back into
\* exactly the original (state, symbol).
C7_CommaKeysDecodable ==
    (file # <<>> /\ \E x \in saved[1].states \cup saved[1].alphabet : HasComma(x)) =>
        \A p \in DOMAIN saved[1].transition_function :
            /\ key(p[1], p[2]) \in DOMAIN file[1].transition_function
            /\ split(key(p[1], p[2])) = <<p[1], p[2]>>

\* C8 (as claimed): an automaton object exists only if its tuple is
\* structurally valid, whether DFA(...) or load_from_file produced it.
C8_ConstructionValidates == Valid(dfa)

-----------------------------------------------------------------------------
(* Properties of the URL automaton (checked under SpecUrl).                 *)

\* C9 (as claimed): the table has an entry for every state other than
\* 'rejected' and every alphabet symbol, and no run leaves validate_url by
\* the undefined-transition branch.
C9_UrlTableTotal ==
    /\ \A q \in UrlStates \ {"rejected"} : \A c \in dfa.alphabet :
          <<q, c>> \in DOMAIN dfa.transition_function
    /\ pc # "return112"

\* C10 (as claimed): from scheme_separator, "/" leads to scheme_separator,
\* ":" to rejected and every other alphabet symbol to authority.
C10_SchemeSeparatorRow ==
    \A c \in dfa.alphabet :
        /\ <<"scheme_separator", c>> \in DOMAIN dfa.transition_function
        /\ dfa.transition_function[<<"scheme_separator", c>>] =
              (IF c = "/" THEN "scheme_separator"
               ELSE IF c = ":" THEN "rejected"
               ELSE "authority")

\* The rule table of the URL grammar as the specification words it.
SafePunctuation ==
    {"-", ".", "_", "~", ":", "/", "@", "!", "$", "&", "'", "(", ")", "*",
     "+", ",", ";", "=", "%"}

RuleTable(q, c) ==
    CASE q = "start" -> IF c = "h" THEN "scheme" ELSE "rejected"
      [] q = "scheme" ->
            IF c \in {"t", "p", "s"} THEN "scheme"
            ELSE IF c = ":" THEN "scheme_separator"
            ELSE "rejected"
      [] q = "authority" ->
            IF c \in Alnum \cup {"-", ".", "_"} THEN "authority"
            ELSE IF c = "/" THEN "path"
            ELSE IF c = "?" THEN "query"
            ELSE IF c = "#" THEN "fragment"
            ELSE "rejected"
      [] q = "path" ->
            IF c \in Alnum \cup SafePunctuation THEN "path"
            ELSE IF c = "?" THEN "query"
            ELSE IF c = "#" THEN "fragment"
            ELSE "rejected"
      [] q = "query" ->
            IF c \in Alnum \cup SafePunctuation \cup {"?"} THEN "query"
            ELSE IF c = "#" THEN "fragment"
            ELSE "rejected"
      [] q = "fragment" ->
            IF c \in Alnum \cup SafePunctuation \cup {"?", "#"} THEN "fragment"
            ELSE "rejected"

Last(s) == s[Len(s)]

StartsWith(s, p) == Len(s) >= Len(p) /\ SubSeq(s, 1, Len(p)) = p

\* C11: in the table as __init__ built it (the object between calls), start,
\* scheme, authority, path, query and fragment have, for every alphabet
\* symbol, the destination the specification's rules give; in particular ":"
\* and "@" leave authority for rejected, and "[" and "]" lead to rejected
\* from all six.
C11_RuleTable ==
    pc = "idle" =>
        \A q \in {"start", "scheme", "authority", "path", "query", "fragment"} :
            /\ \A c \in dfa.alphabet :
                  /\ <<q, c>> \in DOMAIN dfa.transition_function
                  /\ dfa.transition_function[<<q, c>>] = RuleTable(q, c)
            /\ dfa.transition_function[<<q, "[">>] = "rejected"
            /\ dfa.transition_function[<<q, "]">>] = "rejected"
            /\ dfa.transition_function[<<"authority", ":">>] = "rejected"
            /\ dfa.transition_function[<<"authority", "@">>] = "rejected"

\* C11 witness: the built object between two calls, its six rows complete.
C11_Witness ==
    /\ pc = "idle"
    /\ cls = "UrlDFA"
    /\ \A q \in {"start", "scheme", "authority", "path", "query", "fragment"} :
          Cardinality({k \in DOMAIN dfa.transition_function : k[1] = q})
              = Cardinality(dfa.alphabet)
    /\ dfa.transition_function[<<"query", "#">>] = "fragment"

\* C12: validate_url returns True only with the whole url consumed and the
\* last state one of authority, path, query, fragment; a trace that ends in
\* start, scheme, scheme_separator or rejected comes with False; "http:",
\* "https:" and "http://" are rejected with a trace ending in scheme_separator.
C12_AcceptOnlyAtComponents ==
    Ended =>
        /\ result[1] = TRUE =>
              /\ pos = Len(input)
              /\ Len(result[2]) = Len(input) + 1
              /\ Last(result[2]) \in {"authority", "path", "query", "fragment"}
        /\ Last(result[2]) \in {"start", "scheme", "scheme_separator", "rejected"}
              => result[1] = FALSE
        /\ input \in {<<"h","t","t","p",":">>, <<"h","t","t","p","s",":">>,
                      <<"h","t","t","p",":","/","/">>}
              => (result[1] = FALSE /\ Last(result[2]) = "scheme_separator")

\* C12 witness: "http://" read to its end and rejected in scheme_separator.
C12_Witness ==
    /\ pc = "return120"
    /\ input = <<"h","t","t","p",":","/","/">>
    /\ result[1] = FALSE
    /\ Last(result[2]) = "scheme_separator"

\* C14: a non-empty url whose first character is not "h" is rejected with
\* the trace [start, rejected], whatever follows the first character.
C14_FirstNotH ==
    (Ended /\ input # <<>> /\ input[1] # "h") =>
        result = <<FALSE, <<"start", "rejected">>>>

\* C14 witness: "ftp://x.com" rejected after its first character.
C14_Witness ==
    /\ Ended
    /\ input = <<"f","t","p",":","/","/","x",".","c","o","m">>
    /\ result = <<FALSE, <<"start", "rejected">>>>
    /\ pos = 1

\* C19 (as claimed): every accepted url starts with "http://" or "https://".
C19_AcceptedStartsWithScheme ==
    (Ended /\ result[1] = TRUE) =>
        \/ StartsWith(input, <<"h","t","t","p",":","/","/">>)
        \/ StartsWith(input, <<"h","t","t","p","s",":","/","/">>)

\* C20: on a url over the alphabet, process_string run on the same table,
\* start state and accept states returns (it does not raise), with the
\* verdict of validate_url and a trace that is validate_url's trace or that
\* trace without one trailing 'rejected'.
C20_PoliciesAgree ==
    (Ended /\ InAlphabet(Len(input))) =>
        LET engine == process_string(dfa, input)
        IN  /\ engine[1] # "raise37"
            /\ engine[2][1] = result[1]
            /\ \/ result[2] = engine[2][2]
               \/ result[2] = engine[2][2] \o <<"rejected">>

\* C20 witness: validate_url left by its undefined-transition branch, where
\* the engine stops one state earlier.
C20_Witness ==
    /\ pc = "return112"
    /\ InAlphabet(Len(input))
    /\ process_string(dfa, input) = <<"return40", <<FALSE, state_sequence>>>>
    /\ result = <<FALSE, state_sequence \o <<"rejected">>>>

-----------------------------------------------------------------------------
(* validate_url on well-formed urls (SpecUrlWF).                            *)

MaxPartLen == 1

NonEmptySeq(S, n) == BoundedSeq(S, n) \ {<<>>}

Http == <<"h","t","t","p">>
Https == <<"h","t","t","p","s">>
ExampleUrl ==
    <<"h","t","t","p","s",":","/","/","e","x","a","m","p","l","e",".","c",
      "o","m","/","p","a","t","h","?","q","=","1","#","f","r","a","g">>

\* A component that is absent, or its opening character and a body.
Component(open, bodies) == {<<>>} \cup {<<open>> \o b : b \in bodies}

\* scheme "://" authority [ "/" path ] [ "?" query ] [ "#" fragment ], the
\* bodies written in two characters of each class and up to MaxPartLen long
\* (the authority one longer).
EnumeratedUrls ==
    {sch \o <<":","/","/">> \o au \o pa \o qu \o fr :
        sch \in {Http, Https},
        au \in NonEmptySeq({"a", "."}, MaxPartLen + 1),
        pa \in Component("/", BoundedSeq({"a", ":"}, MaxPartLen)),
        qu \in Component("?", BoundedSeq({"/", "?"}, MaxPartLen)),
        fr \in Component("#", BoundedSeq({"?", "#"}, MaxPartLen))}

\* The same shape with one body character ranging over its whole class, the
\* classes as the specification words them.
ClassUrls ==
    {Http \o <<":","/","/">> \o <<c>> : c \in Alnum \cup {"-", ".", "_"}}
    \cup {Http \o <<":","/","/","a","/">> \o <<c>> :
             c \in Alnum \cup SafePunctuation}
    \cup {Http \o <<":","/","/","a","?">> \o <<c>> :
             c \in Alnum \cup SafePunctuation \cup {"?"}}
    \cup {Http \o <<":","/","/","a","#">> \o <<c>> :
             c \in Alnum \cup SafePunctuation \cup {"?", "#"}}

WellFormedUrls == EnumeratedUrls \cup ClassUrls \cup {ExampleUrl}

\* The well-formed urls, and short arbitrary ones that take validate_url
\* through its rejecting exits.
UrlInputsWF == WellFormedUrls \cup BoundedSeq(UrlChars, MaxUrlLen - 1)

\* validate_url, lines 104-105, called with one of UrlInputsWF.
UrlCallWF ==
    /\ pc = "idle"
    /\ \E url \in UrlInputsWF : input' = url
    /\ pc' = "loop"
    /\ pos' = 0
    /\ current_state' = dfa.start_state
    /\ state_sequence' = <<current_state'>>
    /\ result' = <<>>
    /\ UNCHANGED <<webvars, replaced, main, locals, cls, memo, calls, dfa, file, io, fresh, saved, aborted>>

NextUrlWF ==
    \/ UrlCallWF
    \/ UrlUnknownChar
    \/ UrlUndefined
    \/ UrlAdvance
    \/ UrlRejected
    \/ UrlEnd
    \/ NextPrompt

SpecUrlWF == InitUrl /\ [][NextUrlWF]_vars

\* The state of the last component a well-formed url holds.
LastComponent(u) ==
    IF "#" \in Range(u) THEN "fragment"
    ELSE IF "?" \in Range(u) THEN "query"
    ELSE IF \E i \in 1..Len(u) :
                /\ u[i] = "/"
                /\ \E j \in 1..(i - 1) : u[j] \notin {"h", "t", "p", "s", ":", "/"}
         THEN "path"
    ELSE "authority"

\* C13: a well-formed url is accepted, having been read to its end, with a
\* trace that ends in the state of its last component.
C13_WellFormedAccepted ==
    (Ended /\ input \in WellFormedUrls) =>
        /\ result[1] = TRUE
        /\ Len(result[2]) = Len(input) + 1
        /\ Last(result[2]) = LastComponent(input)

\* C13 witness: "https://example.com/path?q=1#frag" accepted in fragment.
C13_Witness ==
    /\ pc = "return120"
    /\ input = ExampleUrl
    /\ result[1] = TRUE
    /\ Last(result[2]) = "fragment"
    /\ {"authority", "path", "query"} \subseteq Range(result[2])

-----------------------------------------------------------------------------
(* The interactive harness: main and create_dfa_interactive (SpecMain).     *)

X == <<"x">>
Trap == <<"t","r","a","p">>

\* str.strip(): the blanks at both ends removed.
RECURSIVE strip(_)
strip(s) ==
    IF s # <<>> /\ Head(s) = " " THEN strip(Tail(s))
    ELSE IF s # <<>> /\ s[Len(s)] = " " THEN strip(SubSeq(s, 1, Len(s) - 1))
    ELSE s

\* set(x.strip() for x in line.split(',')), lines 93, 97 and 120.
stripped_set(line) == {strip(x) : x \in Range(split(line))}

\* What the user types at the prompts of create_dfa_interactive.
StatesAnswers == {P, <<"p", ",", "q">>, <<"p", ",", " ", "q">>, Trap}
AlphabetAnswers == {A, <<" ", "a">>}
NextStateAnswers == {P, Q, X}
StartAnswers == {P, Q, X, Trap}
AcceptAnswers == {Q, <<"p", ",", " ", "q">>, X, Trap}

\* A file whose text is not JSON, and the documents a file can hold.
NotJson == [text |-> "{"]
Fields ==
    {"states", "alphabet", "transition_function", "start_state",
     "accept_states"}
Without(doc, field) == [f \in DOMAIN doc \ {field} |-> doc[f]]
GoodDoc ==
    dfa_dict(DFA({P, Q}, {A}, (<<P, A>> :> Q), P, {Q}), <<P, Q>>, <<A>>, <<Q>>)
CommaDoc ==
    dfa_dict(DFA({P}, {A, Comma}, (<<P, Comma>> :> P), P, {P}),
             <<P>>, <<A, Comma>>, <<P>>)
NoCommaDoc == [GoodDoc EXCEPT !.transition_function = (P :> Q)]

\* What the one filename holds when main starts.
Files ==
    {<<>>, <<NotJson>>, <<GoodDoc>>, <<CommaDoc>>, <<NoCommaDoc>>}
    \cup {<<Without(GoodDoc, f)>> : f \in Fields}

\* load_from_file, lines 68-82: how the call leaves, and with what; the
\* first statement that fails decides.
load_from_file(f) ==
    IF f = <<>> THEN <<"FileNotFoundError", <<>>>>
    ELSE IF "text" \in DOMAIN f[1] THEN <<"JSONDecodeError", <<>>>>
    ELSE IF {"states", "alphabet", "transition_function"} \ DOMAIN f[1] # {}
         THEN <<"KeyError", <<>>>>
    ELSE IF ~unpackable(f[1]) THEN <<"ValueError", <<>>>>
    ELSE IF {"start_state", "accept_states"} \ DOMAIN f[1] # {}
         THEN <<"KeyError", <<>>>>
    ELSE <<"return82", decode(f[1])>>

InitMain ==
    /\ main = "menu"
    /\ file \in Files
    /\ dfa = <<>>
    /\ fresh = <<>>
    /\ cls = "DFA"
    /\ locals = <<>>
    /\ components = <<>>
    /\ store = <<>>
    /\ requests = <<>>
    /\ replaced = {}
    /\ memo = <<>>
    /\ calls = <<>>
    /\ saved = <<>>
    /\ io = "none"
    /\ aborted = FALSE
    /\ pc = "idle"
    /\ input = <<>>
    /\ pos = 0
    /\ current_state = <<>>
    /\ state_sequence = <<>>
    /\ result = <<>>

\* main, lines 142-143: choice '1' enters create_dfa_interactive.
ChooseCreate ==
    /\ main = "menu"
    /\ main' = "create"
    /\ locals' = [step |-> "states", states |-> {}, alphabet |-> {},
                  transition_function |-> <<>>, todo |-> {},
                  start_state |-> <<>>, replaced |-> {}]
    /\ io' = "none"
    /\ UNCHANGED <<webvars, replaced, cls, memo, calls, dfa, file, fresh, saved, aborted, pc,
                   runvars>>

\* create_dfa_interactive, lines 92-93.
AnswerStates ==
    /\ main = "create"
    /\ locals.step = "states"
    /\ \E states_input \in StatesAnswers :
          locals' = [locals EXCEPT !.step = "alphabet",
                                   !.states = stripped_set(states_input)]
    /\ UNCHANGED <<webvars, replaced, main, cls, memo, calls, dfa, file, io, fresh, saved,
                   aborted, pc, runvars>>

\* create_dfa_interactive, lines 96-100; the two for loops of lines 102-103
\* have every (state, symbol) before them.
AnswerAlphabet ==
    /\ main = "create"
    /\ locals.step = "alphabet"
    /\ \E alphabet_input \in AlphabetAnswers :
          LET alphabet == stripped_set(alphabet_input)
          IN  locals' = [locals EXCEPT !.step = "delta",
                                       !.alphabet = alphabet,
                                       !.todo = locals.states \X alphabet]
    /\ UNCHANGED <<webvars, replaced, main, cls, memo, calls, dfa, file, io, fresh, saved,
                   aborted, pc, runvars>>

\* create_dfa_interactive, lines 104-109: the answer is taken as typed; one
\* that is not a state is replaced by "trap". The sets are iterated in an
\* order of the interpreter's choosing.
AnswerNextState ==
    /\ main = "create"
    /\ locals.step = "delta"
    /\ \E k \in locals.todo, next_state \in NextStateAnswers :
          LET target == IF next_state \in locals.states THEN next_state
                        ELSE Trap
              left == locals.todo \ {k}
          IN  locals' = [locals EXCEPT
                  !.transition_function = (k :> target) @@ @,
                  !.replaced = IF next_state \in locals.states THEN @
                               ELSE @ \cup {k},
                  !.todo = left,
                  !.step = IF left = {} THEN "start" ELSE "delta"]
    /\ io' = "none"
    /\ UNCHANGED <<webvars, replaced, main, cls, memo, calls, dfa, file, fresh, saved, aborted,
                   pc, runvars>>

\* create_dfa_interactive, lines 113-116: an answer that is not a state is
\* refused and the question asked again.
BadStart ==
    /\ main = "create"
    /\ locals.step = "start"
    /\ \E start_state \in StartAnswers : start_state \notin locals.states
    /\ io' = "Error: Start state must be in the set of states."
    /\ UNCHANGED <<webvars, replaced, main, locals, cls, memo, calls, dfa, file, fresh, saved,
                   aborted, pc, runvars>>

\* create_dfa_interactive, lines 113-115.
AnswerStart ==
    /\ main = "create"
    /\ locals.step = "start"
    /\ \E start_state \in StartAnswers :
          /\ start_state \in locals.states
          /\ locals' = [locals EXCEPT !.step = "accept",
                                      !.start_state = start_state]
    /\ io' = "none"
    /\ UNCHANGED <<webvars, replaced, main, cls, memo, calls, dfa, file, fresh, saved, aborted,
                   pc, runvars>>

\* create_dfa_interactive, lines 119-127, and main, line 143.
AnswerAccept ==
    /\ main = "create"
    /\ locals.step = "accept"
    /\ \E accept_input \in AcceptAnswers :
          dfa' = DFA(locals.states, locals.alphabet,
                     locals.transition_function, locals.start_state,
                     stripped_set(accept_input) \cap locals.states)
    /\ fresh' = dfa'
    /\ aborted' = FALSE
    /\ replaced' = locals.replaced
    /\ locals' = <<>>
    /\ main' = "test146"
    /\ UNCHANGED <<webvars, cls, memo, calls, file, io, saved, pc, runvars>>

\* main, lines 146-156 and 172-182: one test string, from the prompt to the
\* printed outcome.
TestString ==
    /\ main \in {"test146", "test172"}
    /\ \/ Call
       \/ UnknownSymbol
       \/ UndefinedTransition
       \/ Advance
       \/ LoopEnd
       \/ NextPrompt

\* main, lines 148-149 and 174-175: 'q' leaves the test loop; after the
\* loop of the load option nothing reads the name dfa again.
Quit ==
    /\ main \in {"test146", "test172"}
    /\ pc = "idle"
    /\ main' = IF main = "test146" THEN "save159" ELSE "menu"
    /\ dfa' = IF main = "test146" THEN dfa ELSE <<>>
    /\ fresh' = IF main = "test146" THEN fresh ELSE <<>>
    /\ aborted' = IF main = "test146" THEN aborted ELSE FALSE
    /\ io' = "none"
    /\ UNCHANGED <<webvars, replaced, locals, cls, memo, calls, file, saved, pc, runvars>>

\* main, lines 159-163: the answer 'y'.
SaveYes ==
    /\ main = "save159"
    /\ \E ls \in list(dfa.states), la \in list(dfa.alphabet),
          lf \in list(dfa.accept_states) :
            file' = <<dfa_dict(dfa, ls, la, lf)>>
    /\ io' = "saved"
    /\ saved' = <<dfa>>
    /\ main' = "menu"
    /\ dfa' = <<>>
    /\ fresh' = <<>>
    /\ aborted' = FALSE
    /\ replaced' = {}
    /\ UNCHANGED <<webvars, locals, cls, memo, calls, pc, runvars>>

\* main, lines 159-160: any other answer.
SaveNo ==
    /\ main = "save159"
    /\ main' = "menu"
    /\ dfa' = <<>>
    /\ fresh' = <<>>
    /\ aborted' = FALSE
    /\ replaced' = {}
    /\ UNCHANGED <<webvars, locals, cls, memo, calls, file, io, saved, pc,
                   runvars>>

\* main, lines 166-169: load_from_file returned an automaton.
MainLoad ==
    /\ main = "menu"
    /\ load_from_file(file)[1] = "return82"
    /\ dfa' = load_from_file(file)[2]
    /\ fresh' = dfa'
    /\ aborted' = FALSE
    /\ io' = "loaded"
    /\ main' = "test172"
    /\ UNCHANGED <<webvars, replaced, locals, cls, memo, calls, file, saved, pc, runvars>>

\* main, lines 184-187: the two exceptions the load option catches are
\* printed, and the while loop of line 134 shows the menu again.
MainLoadCaught ==
    /\ main = "menu"
    /\ load_from_file(file)[1] \in {"FileNotFoundError", "JSONDecodeError"}
    /\ io' = load_from_file(file)[1]
    /\ UNCHANGED <<webvars, replaced, main, locals, cls, memo, calls, dfa, file, fresh, saved,
                   aborted, pc, runvars>>

\* main, lines 167-187: no except clause names KeyError or ValueError; the
\* exception leaves main and the program ends with a traceback.
MainLoadUncaught ==
    /\ main = "menu"
    /\ load_from_file(file)[1] \in {"KeyError", "ValueError"}
    /\ io' = load_from_file(file)[1]
    /\ main' = "crashed"
    /\ UNCHANGED <<webvars, replaced, locals, cls, memo, calls, dfa, file, fresh, saved, aborted,
                   pc, runvars>>

\* main, lines 189-190.
ChooseExit ==
    /\ main = "menu"
    /\ main' = "exited"
    /\ io' = "none"
    /\ UNCHANGED <<webvars, replaced, locals, cls, memo, calls, dfa, file, fresh, saved, aborted,
                   pc, runvars>>

\* main, lines 192-193.
InvalidChoice ==
    /\ main = "menu"
    /\ io' = "Invalid choice. Please try again."
    /\ UNCHANGED <<webvars, replaced, main, locals, cls, memo, calls, dfa, file, fresh, saved,
                   aborted, pc, runvars>>

NextMain ==
    \/ ChooseCreate
    \/ AnswerStates
    \/ AnswerAlphabet
    \/ AnswerNextState
    \/ BadStart
    \/ AnswerStart
    \/ AnswerAccept
    \/ TestString
    \/ Quit
    \/ SaveYes
    \/ SaveNo
    \/ MainLoad
    \/ MainLoadCaught
    \/ MainLoadUncaught
    \/ ChooseExit
    \/ InvalidChoice

SpecMain == InitMain /\ [][NextMain]_vars

\* C15: a load that fails, because the file is absent or its content does
\* not give a document, is reported by the load option and leaves main at
\* its menu, the test loop not entered.
C15_LoadFailureReturnsToMenu ==
    io \in {"FileNotFoundError", "JSONDecodeError", "KeyError", "ValueError"}
        => main = "menu"

\* C16: the automaton create_dfa_interactive returns has its start state and
\* accept states among its states and its transitions over its states and
\* alphabet.
C16_CreatedValid ==
    main = "test146" => Valid(dfa)

-----------------------------------------------------------------------------
(* Repeated calls on one object, of either class (SpecDet).                 *)

\* The automata the repeated calls are made on: two states, started in p.
DetAutomata ==
    {a \in Automata :
        a.states = {P, Q} /\ a.start_state = P /\ a.accept_states = {Q}}

\* The urls the repeated calls are made with.
DetUrls == ScenarioUrls \cup BoundedSeq({"h", ":", "/", "<"}, 3)

InitDet ==
    /\ \/ cls = "DFA" /\ dfa \in DetAutomata /\ main = "test146"
       \/ cls = "UrlDFA" /\ dfa = UrlDFA /\ main = "test194"
    /\ locals = <<>>
    /\ components = <<>>
    /\ store = <<>>
    /\ requests = <<>>
    /\ replaced = {}
    /\ memo = <<>>
    /\ calls = <<>>
    /\ fresh = dfa
    /\ file = <<>>
    /\ saved = <<>>
    /\ io = "none"
    /\ aborted = FALSE
    /\ pc = "idle"
    /\ input = <<>>
    /\ pos = 0
    /\ current_state = <<>>
    /\ state_sequence = <<>>
    /\ result = <<>>

\* validate_url, lines 104-105, called with one of DetUrls.
UrlCallDet ==
    /\ pc = "idle"
    /\ \E url \in DetUrls : input' = url
    /\ pc' = "loop"
    /\ pos' = 0
    /\ current_state' = dfa.start_state
    /\ state_sequence' = <<current_state'>>
    /\ result' = <<>>
    /\ UNCHANGED <<webvars, replaced, main, locals, cls, memo, calls, dfa, file, io, fresh,
                   saved, aborted>>

\* A call of DFA.process_string, step by step.
RunDFA ==
    /\ cls = "DFA"
    /\ \/ Call
       \/ UnknownSymbol
       \/ UndefinedTransition
       \/ Advance
       \/ LoopEnd

\* A call of UrlDFA.validate_url, step by step.
RunUrlDFA ==
    /\ cls = "UrlDFA"
    /\ \/ UrlCallDet
       \/ UrlUnknownChar
       \/ UrlUndefined
       \/ UrlAdvance
       \/ UrlRejected
       \/ UrlEnd

\* The harness prints the outcome and asks again (main, lines 146-156; main
\* of url_validator.py, lines 194-215); the outcome is noted for comparison
\* with that of a later call.
Remember ==
    /\ pc \notin {"idle", "loop"}
    /\ memo' = <<input, pc, result>>
    /\ pc' = "idle"
    /\ input' = <<>>
    /\ pos' = 0
    /\ current_state' = <<>>
    /\ state_sequence' = <<>>
    /\ result' = <<>>
    /\ UNCHANGED <<webvars, replaced, main, locals, cls, calls, dfa, file, io, fresh, saved,
                   aborted>>

NextDet ==
    \/ RunDFA
    \/ RunUrlDFA
    \/ NextPrompt
    \/ Remember

SpecDet == InitDet /\ [][NextDet]_vars

\* C17: a call that has ended, by a return or by the unknown-symbol error,
\* left as an earlier call with the same input on the same object left, and
\* with the same verdict and trace, whatever calls were made in between; for
\* process_string and for validate_url.
C17_Deterministic ==
    (Ended /\ memo # <<>> /\ memo[1] = input) =>
        /\ memo[2] = pc
        /\ memo[3] = result

\* C17 witness: a second call of process_string with an input read through
\* two transitions, the first call's outcome noted.
C17_Witness ==
    /\ cls = "DFA"
    /\ pc = "return45"
    /\ memo # <<>>
    /\ memo[1] = input
    /\ Len(input) >= 2
    /\ Len(result[2]) = Len(input) + 1

-----------------------------------------------------------------------------
(* Calls of process_string from several threads on one object (SpecThreads). *)

Threads == {"t1", "t2"}

\* The automata shared by the threads: two states over the alphabet {a}.
SharedAutomata ==
    {a \in DetAutomata :
        /\ a.alphabet = {A}
        /\ DOMAIN a.transition_function \subseteq {P, Q} \X {A}}

\* A thread that is not inside process_string.
NoFrame ==
    [pc |-> "idle", input |-> <<>>, pos |-> 0, current_state |-> <<>>,
     state_sequence |-> <<>>, result |-> <<>>, interleaved |-> FALSE]

\* Another thread is in the middle of its loop.
OtherMidLoop(t) ==
    \E u \in Threads \ {t} : calls[u].pc = "loop" /\ calls[u].pos >= 1

InitThreads ==
    /\ dfa \in SharedAutomata
    /\ calls = [t \in Threads |-> NoFrame]
    /\ cls = "DFA"
    /\ main = "test146"
    /\ locals = <<>>
    /\ components = <<>>
    /\ store = <<>>
    /\ requests = <<>>
    /\ replaced = {}
    /\ memo = <<>>
    /\ fresh = dfa
    /\ file = <<>>
    /\ saved = <<>>
    /\ io = "none"
    /\ aborted = FALSE
    /\ pc = "idle"
    /\ input = <<>>
    /\ pos = 0
    /\ current_state = <<>>
    /\ state_sequence = <<>>
    /\ result = <<>>

\* process_string, lines 32-33, in the frame of thread t.
ThreadCall(t) ==
    /\ calls[t].pc = "idle"
    /\ \E s \in Inputs :
          calls' = [calls EXCEPT ![t] =
                       [pc |-> "loop", input |-> s, pos |-> 0,
                        current_state |-> dfa.start_state,
                        state_sequence |-> <<dfa.start_state>>,
                        result |-> <<>>, interleaved |-> FALSE]]
    /\ UNCHANGED <<webvars, replaced, main, locals, cls, memo, dfa, file, io, fresh, saved,
                   aborted, pc, runvars>>

\* process_string, lines 36-37.
ThreadUnknownSymbol(t) ==
    LET f == calls[t]
    IN  /\ f.pc = "loop"
        /\ f.pos < Len(f.input)
        /\ f.input[f.pos + 1] \notin dfa.alphabet
        /\ calls' = [calls EXCEPT ![t].pc = "raise37",
                                  ![t].interleaved = @ \/ OtherMidLoop(t)]
        /\ UNCHANGED <<webvars, replaced, main, locals, cls, memo, dfa, file, io, fresh, saved,
                       aborted, pc, runvars>>

\* process_string, lines 39-40.
ThreadUndefinedTransition(t) ==
    LET f == calls[t]
    IN  /\ f.pc = "loop"
        /\ f.pos < Len(f.input)
        /\ f.input[f.pos + 1] \in dfa.alphabet
        /\ <<f.current_state, f.input[f.pos + 1]>>
               \notin DOMAIN dfa.transition_function
        /\ calls' = [calls EXCEPT ![t].pc = "return40",
                                  ![t].result = <<FALSE, f.state_sequence>>,
                                  ![t].interleaved = @ \/ OtherMidLoop(t)]
        /\ UNCHANGED <<webvars, replaced, main, locals, cls, memo, dfa, file, io, fresh, saved,
                       aborted, pc, runvars>>

\* process_string, lines 42-43, the trace being one list shared by the
\* calls in progress.
ThreadAdvance_Mut_SharedTrace(t) ==
    LET f == calls[t]
        nxt == dfa.transition_function[<<f.current_state, f.input[f.pos + 1]>>]
    IN  /\ f.pc = "loop"
        /\ f.pos < Len(f.input)
        /\ f.input[f.pos + 1] \in dfa.alphabet
        /\ <<f.current_state, f.input[f.pos + 1]>>
               \in DOMAIN dfa.transition_function
        /\ calls' = [u \in Threads |->
                       IF u = t
                       THEN [f EXCEPT !.current_state = nxt,
                                      !.state_sequence = Append(@, nxt),
                                      !.pos = @ + 1,
                                      !.interleaved = @ \/ OtherMidLoop(t)]
                       ELSE IF calls[u].pc = "loop"
                       THEN [calls[u] EXCEPT !.state_sequence = Append(@, nxt)]
                       ELSE calls[u]]
        /\ UNCHANGED <<webvars, replaced, main, locals, cls, memo, dfa, file, io, fresh, saved,
                       aborted, pc, runvars>>

\* process_string, lines 42-43: current_state and state_sequence are the
\* frame's own.
ThreadAdvance(t) ==
    LET f == calls[t]
        nxt == dfa.transition_function[<<f.current_state, f.input[f.pos + 1]>>]
    IN  /\ f.pc = "loop"
        /\ f.pos < Len(f.input)
        /\ f.input[f.pos + 1] \in dfa.alphabet
        /\ <<f.current_state, f.input[f.pos + 1]>>
               \in DOMAIN dfa.transition_function
        /\ calls' = [calls EXCEPT ![t].current_state = nxt,
                                  ![t].state_sequence = Append(@, nxt),
                                  ![t].pos = @ + 1,
                                  ![t].interleaved = @ \/ OtherMidLoop(t)]
        /\ UNCHANGED <<webvars, replaced, main, locals, cls, memo, dfa, file, io, fresh, saved,
                       aborted, pc, runvars>>

\* process_string, line 45.
ThreadLoopEnd(t) ==
    LET f == calls[t]
    IN  /\ f.pc = "loop"
        /\ f.pos = Len(f.input)
        /\ calls' = [calls EXCEPT
                        ![t].pc = "return45",
                        ![t].result = <<f.current_state \in dfa.accept_states,
                                        f.state_sequence>>,
                        ![t].interleaved = @ \/ OtherMidLoop(t)]
        /\ UNCHANGED <<webvars, replaced, main, locals, cls, memo, dfa, file, io, fresh, saved,
                       aborted, pc, runvars>>

\* The caller has its outcome and the frame is gone.
ThreadDone(t) ==
    /\ calls[t].pc \notin {"idle", "loop"}
    /\ calls' = [calls EXCEPT ![t] = NoFrame]
    /\ UNCHANGED <<webvars, replaced, main, locals, cls, memo, dfa, file, io, fresh, saved,
                   aborted, pc, runvars>>

NextThreads ==
    \E t \in Threads :
        \/ ThreadCall(t)
        \/ ThreadUnknownSymbol(t)
        \/ ThreadUndefinedTransition(t)
        \/ ThreadAdvance(t)
        \/ ThreadLoopEnd(t)
        \/ ThreadDone(t)

SpecThreads == InitThreads /\ [][NextThreads]_vars

\* C18: a call of process_string that has ended, its steps interleaved in
\* any way with those of the other thread's calls, left by the line and with
\* the verdict and trace that the call gives when made alone on the
\* automaton as constructed; the automaton itself is as constructed.
C18_InterleavedAsAlone ==
    /\ dfa = fresh
    /\ \A t \in Threads :
          calls[t].pc \notin {"idle", "loop"} =>
              <<calls[t].pc, calls[t].result>>
                  = process_string(fresh, calls[t].input)

\* C18 witness: a call ended after two transitions, steps of it taken while
\* the other thread, reading another input, was in the middle of its loop.
C18_Witness ==
    \E t \in Threads, u \in Threads :
        /\ t # u
        /\ calls[t].pc = "return45"
        /\ calls[t].interleaved
        /\ Len(calls[t].result[2]) >= 3
        /\ calls[u].pc = "loop"
        /\ calls[u].pos >= 1
        /\ calls[u].input # calls[t].input

-----------------------------------------------------------------------------
(* The shape of the traces validate_url returns (SpecUrl).                  *)

\* The place of a state in the order of the components.
Rank(q) ==
    CASE q = "start" -> 0
      [] q = "scheme" -> 1
      [] q = "scheme_separator" -> 2
      [] q = "authority" -> 3
      [] q = "path" -> 4
      [] q = "query" -> 5
      [] q = "fragment" -> 6
      [] q = "rejected" -> 7

Occurrences(q, s) == Cardinality({i \in 1..Len(s) : s[i] = q})

\* C21: 'rejected' in a returned trace occurs once, as its last element, and
\* with the verdict False; the call then returns what it returns for the url
\* cut after the rejecting character, so nothing behind that character
\* counts; and a call that left before the end of the url (lines 109, 112,
\* 118) returns False with a trace ending in 'rejected'.
C21_RejectedAbsorbing ==
    Ended =>
        /\ "rejected" \in Range(result[2]) =>
              /\ Occurrences("rejected", result[2]) = 1
              /\ Last(result[2]) = "rejected"
              /\ result[1] = FALSE
              /\ Len(result[2]) - 1 <= Len(input)
              /\ validate_url(dfa, SubSeq(input, 1, Len(result[2]) - 1))[2]
                     = result
        /\ pc \in {"return109", "return112", "return118"} =>
              /\ result[1] = FALSE
              /\ Last(result[2]) = "rejected"

\* C21 witness: a character outside the alphabet ended the call, with
\* characters of the url still unread behind it.
C21_Witness ==
    /\ pc = "return109"
    /\ Len(state_sequence) >= 2
    /\ Len(input) > Len(state_sequence)
    /\ result = <<FALSE, state_sequence \o <<"rejected">>>>

\* C22: a returned trace never steps back in the order start < scheme <
\* scheme_separator < authority < path < query < fragment < rejected, and
\* holds start once and rejected at most once.
C22_ComponentOrder ==
    Ended =>
        /\ \A i \in 1..(Len(result[2]) - 1) :
              Rank(result[2][i]) <= Rank(result[2][i + 1])
        /\ Occurrences("start", result[2]) = 1
        /\ Occurrences("rejected", result[2]) <= 1

\* C22 witness: a url read through authority, path, query and fragment.
C22_Witness ==
    /\ pc = "return120"
    /\ {"authority", "path", "query", "fragment"} \subseteq Range(result[2])
    /\ Len(result[2]) >= 10

\* The run in hand took a transition whose target was replaced by "trap".
TookReplaced ==
    \E i \in 1..(Len(state_sequence) - 1) :
        <<state_sequence[i], input[i]>> \in replaced

\* C23: in an automaton create_dfa_interactive returned with a target
\* replaced by "trap", "trap" is no accept state and no transition leaves
\* it, and a run that took a replaced transition is not accepted.
C23_TrapIsSink ==
    (main = "test146" /\ replaced # {}) =>
        /\ Trap \notin dfa.accept_states
        /\ \A k \in DOMAIN dfa.transition_function : k[1] # Trap
        /\ (Ended /\ TookReplaced /\ result # <<>>) => result[1] = FALSE

-----------------------------------------------------------------------------
(* analyze_url_components and the main of url_validator.py (SpecUrlMain).   *)

\* str.find(sub): the 0-based index of the first occurrence, -1 if none.
find(s, sub) ==
    LET at == {i \in 0..(Len(s) - Len(sub)) :
                  SubSeq(s, i + 1, i + Len(sub)) = sub}
    IN  IF at = {} THEN -1
        ELSE CHOOSE i \in at : \A j \in at : i <= j

\* s[a:b] for 0 <= a and 0 <= b <= len(s); empty when b <= a.
slice(s, a, b) == IF b <= a THEN <<>> ELSE SubSeq(s, a + 1, b)

\* Lines 155-157 and 164-166: the least of the positions found, else n.
first_of(n, positions) ==
    LET found == {q \in positions : q # -1 /\ q < n}
    IN  IF found = {} THEN n
        ELSE CHOOSE q \in found : \A r \in found : q <= r

\* analyze_url_components, lines 132-185: <<>> for None, <<dict>> otherwise.
analyze_url_components(d, url) ==
    LET valid == validate_url(d, url)[2][1]
        scheme_end == find(url, <<":", "/", "/">>)
        url_without_scheme == slice(url, scheme_end + 3, Len(url))
        n == Len(url_without_scheme)
        path_start == find(url_without_scheme, <<"/">>)
        query_start == find(url_without_scheme, <<"?">>)
        fragment_start == find(url_without_scheme, <<"#">>)
        authority_end ==
            first_of(n, {path_start, query_start, fragment_start})
        path_end == first_of(n, {query_start, fragment_start})
        query_end == IF fragment_start # -1 THEN fragment_start ELSE n
    IN  IF ~valid THEN <<>>
        ELSE IF scheme_end = -1 THEN <<>>
        ELSE <<[scheme |-> slice(url, 0, scheme_end),
                authority |-> slice(url_without_scheme, 0, authority_end),
                path |-> IF path_start # -1
                         THEN slice(url_without_scheme, path_start, path_end)
                         ELSE <<>>,
                query |-> IF query_start # -1
                          THEN slice(url_without_scheme, query_start, query_end)
                          ELSE <<>>,
                fragment |-> IF fragment_start # -1
                             THEN slice(url_without_scheme, fragment_start, n)
                             ELSE <<>>]>>

\* main, lines 205-206: the url was found valid and is analyzed.
Analyze ==
    /\ pc = "return120"
    /\ result[1] = TRUE
    /\ components' = <<analyze_url_components(dfa, input)>>
    /\ pc' = "analyzed206"
    /\ UNCHANGED <<store, requests, replaced, main, locals, cls, memo, calls,
                   dfa, file, io, fresh, saved, aborted, runvars>>

\* main, lines 194-203 and 207-215: the outcome is printed, with the
\* components if there are any, and the next url is asked for.
AskAgain ==
    /\ \/ pc \in {"return109", "return112", "return118"}
       \/ pc = "return120" /\ result[1] = FALSE
       \/ pc = "analyzed206"
    /\ pc' = "idle"
    /\ components' = <<>>
    /\ input' = <<>>
    /\ pos' = 0
    /\ current_state' = <<>>
    /\ state_sequence' = <<>>
    /\ result' = <<>>
    /\ UNCHANGED <<store, requests, replaced, main, locals, cls, memo, calls,
                   dfa, file, io, fresh, saved, aborted>>

NextUrlMain ==
    \/ UrlCall
    \/ UrlUnknownChar
    \/ UrlUndefined
    \/ UrlAdvance
    \/ UrlRejected
    \/ UrlEnd
    \/ Analyze
    \/ AskAgain

SpecUrlMain == InitUrl /\ [][NextUrlMain]_vars

\* C25: analyze_url_components gives None for exactly the urls validate_url
\* rejects; for a url found valid, main's call of it gives a dictionary with
\* the keys scheme, authority, path, query and fragment.
C25_NoneIffRejected ==
    Ended =>
        /\ (analyze_url_components(dfa, input) = <<>>) <=> (result[1] = FALSE)
        /\ pc = "analyzed206" =>
              /\ components[1] # <<>>
              /\ DOMAIN components[1][1]
                     = {"scheme", "authority", "path", "query", "fragment"}

-----------------------------------------------------------------------------
(* The web layer: create_dfa and test_dfa of app.py (SpecWeb).              *)

Callers == {"c1", "c2"}

\* The JSON bodies posted to /api/create_dfa.
Transition(q, a, r) == [state |-> q, symbol |-> a, next_state |-> r]
Submissions ==
    {[states |-> ls, alphabet |-> <<A>>, transitions |-> <<Transition(P, A, r)>>,
      start_state |-> P, accept_states |-> <<Q>>] :
        ls \in {<<P>>, <<P, Q>>}, r \in {P, Q}}

\* The strings posted to /api/test_dfa.
WebInputs == BoundedSeq({A}, MaxLen)

\* create_dfa, lines 57-63: the dict built from the list of transitions, a
\* later entry replacing an earlier one with the same state and symbol, an
\* entry with an empty field left out.
RECURSIVE transition_dict(_)
transition_dict(ts) ==
    IF ts = <<>> THEN <<>>
    ELSE LET t == ts[Len(ts)]
             rest == transition_dict(SubSeq(ts, 1, Len(ts) - 1))
         IN  IF t.state # <<>> /\ t.symbol # <<>> /\ t.next_state # <<>>
             THEN (<<t.state, t.symbol>> :> t.next_state) @@ rest
             ELSE rest

\* create_dfa, lines 52-70: the automaton built from a body.
build(data) ==
    DFA(Range(data.states), Range(data.alphabet),
        transition_dict(data.transitions), data.start_state,
        Range(data.accept_states))

\* hash(frozenset(states)): a number computed from the elements alone, the
\* same for equal sets and distinct for the distinct sets of labels here.
element_hash(q) == IF q = P THEN 1 ELSE IF q = Q THEN 2 ELSE 4
RECURSIVE hash(_)
hash(S) ==
    IF S = {} THEN 0
    ELSE LET q == CHOOSE q \in S : TRUE
         IN  element_hash(q) + hash(S \ {q})

\* create_dfa, line 73: f"temp_dfa_{hash(frozenset(states))}.json".
filename(states) == <<"temp_dfa_", hash(states), ".json">>

\* A file opened for writing and not yet written: empty, which is no JSON.
Truncated == [text |-> ""]

NoRequest ==
    [pc |-> "idle", data |-> <<>>, dfa_id |-> <<>>, input_string |-> <<>>,
     response |-> <<>>]

\* What open(name) finds: <<>> when there is no such file.
stored(name) == IF name \in DOMAIN store THEN <<store[name]>> ELSE <<>>

InitWeb ==
    /\ requests = [c \in Callers |-> NoRequest]
    /\ store = <<>>
    /\ components = <<>>
    /\ replaced = {}
    /\ main = "serving"
    /\ cls = "DFA"
    /\ dfa = <<>>
    /\ fresh = <<>>
    /\ locals = <<>>
    /\ memo = <<>>
    /\ calls = <<>>
    /\ file = <<>>
    /\ saved = <<>>
    /\ io = "none"
    /\ aborted = FALSE
    /\ pc = "idle"
    /\ input = <<>>
    /\ pos = 0
    /\ current_state = <<>>
    /\ state_sequence = <<>>
    /\ result = <<>>

\* create_dfa, lines 50-74, as far as save_to_file's open(filename, 'w') of
\* line 60, which empties the file of that name.
CreateOpen(c) ==
    /\ requests[c].pc = "idle"
    /\ \E data \in Submissions :
          LET name == filename(build(data).states)
          IN  /\ requests' = [requests EXCEPT ![c] =
                     [NoRequest EXCEPT !.pc = "writing", !.data = data,
                                       !.dfa_id = name]]
              /\ store' = (name :> Truncated) @@ store
    /\ UNCHANGED <<components, replaced, main, locals, cls, memo, calls, dfa,
                   file, io, fresh, saved, aborted, pc, runvars>>

\* save_to_file, line 61, and create_dfa, lines 76-80: the document is
\* written and the filename answered as dfa_id.
CreateDump(c) ==
    LET d == build(requests[c].data)
    IN  /\ requests[c].pc = "writing"
        /\ \E ls \in list(d.states), la \in list(d.alphabet),
              lf \in list(d.accept_states) :
                store' = (requests[c].dfa_id :> dfa_dict(d, ls, la, lf))
                             @@ store
        /\ requests' = [requests EXCEPT ![c].pc = "created"]
        /\ UNCHANGED <<components, replaced, main, locals, cls, memo, calls,
                       dfa, file, io, fresh, saved, aborted, pc, runvars>>

\* test_dfa, lines 89-109: the answer to a test of input_string on the file
\* dfa_id names; every exception is answered with success False.
test_dfa(dfa_id, input_string) ==
    LET loaded == load_from_file(stored(dfa_id))
        run == process_string(loaded[2], input_string)
    IN  IF loaded[1] # "return82" THEN [success |-> FALSE]
        ELSE IF run[1] = "raise37" THEN [success |-> FALSE]
        ELSE [success |-> TRUE, accepted |-> run[2][1],
              state_sequence |-> run[2][2]]

\* test_dfa, called with the dfa_id this caller's create_dfa answered.
TestDfa(c) ==
    /\ requests[c].pc = "created"
    /\ \E input_string \in WebInputs :
          requests' = [requests EXCEPT
              ![c].pc = "tested",
              ![c].input_string = input_string,
              ![c].response = <<test_dfa(requests[c].dfa_id, input_string)>>]
    /\ UNCHANGED <<components, store, replaced, main, locals, cls, memo,
                   calls, dfa, file, io, fresh, saved, aborted, pc, runvars>>

\* The caller has its answer and may test again.
TestAgain(c) ==
    /\ requests[c].pc = "tested"
    /\ requests' = [requests EXCEPT ![c].pc = "created",
                                    ![c].input_string = <<>>,
                                    ![c].response = <<>>]
    /\ UNCHANGED <<components, store, replaced, main, locals, cls, memo,
                   calls, dfa, file, io, fresh, saved, aborted, pc, runvars>>

\* The caller turns to a new automaton; the file stays where it is.
Forget(c) ==
    /\ requests[c].pc = "created"
    /\ requests' = [requests EXCEPT ![c] = NoRequest]
    /\ UNCHANGED <<components, store, replaced, main, locals, cls, memo,
                   calls, dfa, file, io, fresh, saved, aborted, pc, runvars>>

NextWeb ==
    \E c \in Callers :
        \/ CreateOpen(c)
        \/ CreateDump(c)
        \/ TestDfa(c)
        \/ TestAgain(c)
        \/ Forget(c)

SpecWeb == InitWeb /\ [][NextWeb]_vars

\* C24: a test_dfa that succeeded, called with the dfa_id the caller's own
\* create_dfa answered, gives the verdict and trace of the input on the
\* automaton this caller submitted, whatever the other callers' requests.
C24_TestsOwnAutomaton ==
    \A c \in Callers :
        (requests[c].pc = "tested" /\ requests[c].response[1].success) =>
            <<requests[c].response[1].accepted,
              requests[c].response[1].state_sequence>>
                = process_string(build(requests[c].data),
                                 requests[c].input_string)[2]

=============================================================================
